---- MODULE Spec2Model ----
(***************************************************************************)
(* Model of tokei's src/input.rs: the `supported_formats!` macro (the      *)
(* Format enum, its capability lists, Format::parse, Format::print and     *)
(* FromStr for Format), the macro's invocation for cbor, json, yaml and    *)
(* toml, and add_input / convert_input.                                    *)
(*                                                                         *)
(* A build configuration is the set of cargo features it was compiled      *)
(* with; every #[cfg(feature = ...)] of the source is a membership test    *)
(* on that set.                                                            *)
(***************************************************************************)
EXTENDS Integers, Sequences, FiniteSets

VARIABLES
    features,   \* the cargo features this build was compiled with
    arg,        \* the argument handed to a direct call of parse / print
    pc,         \* "start", "printed", "done", "running", "exited", "panicked"
    ret,        \* what the last call did and returned
    languages,  \* add_input's `languages: &mut Languages` aggregate
    decoded,    \* the maps of the add_input calls that returned, in order
    stderr,     \* what was written with eprintln!, in order
    exit_code   \* the process exit status; NoExit while it runs

vars == <<features, arg, pc, ret, languages, decoded, stderr, exit_code>>

----------------------------------------------------------------------------
(* Bounds *)

\* the largest per-language statistic of a map
MaxStat == 1
\* the longest input text, in characters
MaxLen == 2
\* the number of add_input calls of one run that may succeed
MaxInputs == 2

----------------------------------------------------------------------------
(* The rows of the supported_formats! invocation, in declared order *)

Catalog ==
    << [name |-> "cbor", feature |-> "cbor",    variant |-> "Cbor"],
       [name |-> "json", feature |-> "json",    variant |-> "Json"],
       [name |-> "yaml", feature |-> "yaml",    variant |-> "Yaml"],
       [name |-> "toml", feature |-> "toml-io", variant |-> "Toml"] >>

Features == {Catalog[i].feature : i \in DOMAIN Catalog}

Builds == SUBSET Features

\* #[cfg(feature = $feature)] on row i
cfg(i, fs) == Catalog[i].feature \in fs

\* the variants of `enum Format` that exist in the build
Format(fs) == {Catalog[i].variant : i \in {j \in DOMAIN Catalog : cfg(j, fs)}}

RECURSIVE Rows(_, _)
\* the names of the rows from i on whose index is in keep, in declared order:
\* the expansion of $( #[cfg(...)] stringify!($name) ),+
Rows(i, keep) ==
    IF i > Len(Catalog) THEN <<>>
    ELSE (IF i \in keep THEN <<Catalog[i].name>> ELSE <<>>) \o Rows(i + 1, keep)

Format_supported(fs) == Rows(1, {i \in DOMAIN Catalog : cfg(i, fs)})

Format_all(fs) == Rows(1, DOMAIN Catalog)

not_supported_cfg_unnegated(fs) == Rows(1, {i \in DOMAIN Catalog : cfg(i, fs)})

Format_not_supported(fs) == Rows(1, {i \in DOMAIN Catalog : ~cfg(i, fs)})

----------------------------------------------------------------------------
(* impl FromStr for Format *)

\* format!("{:?}", s) of a string without characters to escape
Debug(s) == "\"" \o s \o "\""

NoErr == [kind |-> "none", format |-> "", install |-> ""]

\* the index of the match arm stringify!($name) => ... taken by `format`,
\* 0 for the catch-all arm
Arm(format) ==
    IF \E i \in DOMAIN Catalog : Catalog[i].name = format
    THEN CHOOSE i \in DOMAIN Catalog : Catalog[i].name = format
    ELSE 0

from_str_ungated(format, fs) ==
    LET i == Arm(format) IN
    IF i = 0
    THEN [ok |-> FALSE, variant |-> "",
          err |-> [kind |-> "not a supported serialization format",
                   format |-> Debug(format), install |-> ""]]
    ELSE [ok |-> TRUE, variant |-> Catalog[i].variant, err |-> NoErr]

from_str(format, fs) ==
    LET i == Arm(format) IN
    IF i = 0
    THEN [ok |-> FALSE, variant |-> "",
          err |-> [kind |-> "not a supported serialization format",
                   format |-> Debug(format), install |-> ""]]
    ELSE IF cfg(i, fs)
    THEN [ok |-> TRUE, variant |-> Catalog[i].variant, err |-> NoErr]
    ELSE [ok |-> FALSE, variant |-> "",
          err |-> [kind |-> "compiled without serialization support",
                   format |-> Catalog[i].name,
                   install |-> "cargo install tokei --features "
                               \o Catalog[i].name]]

----------------------------------------------------------------------------
(* Statistics maps and input texts *)

Langs == {"Rust"}

\* type LanguageMap = BTreeMap<LanguageType, Language>
LanguageMap == [Langs -> 0..MaxStat]

NoMap == [l \in Langs |-> 0]

Ok(m) == [ok |-> TRUE, map |-> m]

Err == [ok |-> FALSE, map |-> NoMap]

\* Result<LanguageMap, Box<Error>> of one decoder
DecodeResult == {Err} \cup {Ok(m) : m \in LanguageMap}

\* the sixteen hexadecimal digits, digit d at index d + 1
Digits == <<"0", "1", "2", "3", "4", "5", "6", "7",
            "8", "9", "a", "b", "c", "d", "e", "f">>

HexChars == {Digits[i] : i \in DOMAIN Digits}

HexVal(c) == (CHOOSE i \in DOMAIN Digits : Digits[i] = c) - 1

\* the characters input texts are made of: the digits the encoded maps
\* need, and one character that is no hexadecimal digit
InputChars == {Digits[d + 1] : d \in 0..MaxStat} \cup {"{"}

CharSeqs == UNION {[1..n -> InputChars] : n \in 0..MaxLen}

\* a non-empty text of hexadecimal digits alone
OnlyHexDigits(cs) == Len(cs) > 0 /\ \A i \in DOMAIN cs : cs[i] \in HexChars

\* An input text: its characters, and what serde_json, serde_yaml and toml
\* make of it.  The three decoders are outside this repository: any outcome
\* is allowed, except that a non-empty text of hexadecimal digits alone is
\* no JSON, YAML or TOML document of a map.
Texts ==
    {t \in [chars : CharSeqs, json : DecodeResult, yaml : DecodeResult,
            toml : DecodeResult] :
        OnlyHexDigits(t.chars) =>
            (~t.json.ok /\ ~t.yaml.ok /\ ~t.toml.ok)}

----------------------------------------------------------------------------
(* The codecs of the supported_formats! invocation *)

RECURSIVE HexPairs(_)
HexPairs(cs) ==
    IF Len(cs) = 0 THEN <<>>
    ELSE <<16 * HexVal(cs[1]) + HexVal(cs[2])>> \o HexPairs(SubSeq(cs, 3, Len(cs)))

\* hex::FromHex::from_hex
from_hex(cs) ==
    IF Len(cs) % 2 = 0 /\ \A i \in DOMAIN cs : cs[i] \in HexChars
    THEN [ok |-> TRUE, bytes |-> HexPairs(cs)]
    ELSE [ok |-> FALSE, bytes |-> <<>>]

\* Languages::to_cbor
to_cbor(m) == <<m["Rust"]>>

\* serde_cbor::from_slice
from_slice(bytes) ==
    IF Len(bytes) = 1 /\ bytes[1] \in 0..MaxStat
    THEN Ok([l \in Langs |-> bytes[1]])
    ELSE Err

Decoded(r) == [kind |-> IF r.ok THEN "Ok" ELSE "Err", map |-> r.map, msg |-> ""]

cbor_parse_hex_error_as_err(input) ==
    LET hex == from_hex(input.chars) IN
    IF ~hex.ok THEN Decoded(Err) ELSE Decoded(from_slice(hex.bytes))

\* |input| { ... } of the cbor row: "Exit" is process::exit(1)
cbor_parse(input) ==
    LET hex == from_hex(input.chars) IN
    IF ~hex.ok
    THEN [kind |-> "Exit", map |-> NoMap, msg |-> "FromHexError description"]
    ELSE Decoded(from_slice(hex.bytes))

json_parse(input) == Decoded(input.json)

yaml_parse(input) == Decoded(input.yaml)

toml_parse(input) == Decoded(input.toml)

\* fn $name($parse_param: &str) of row i
parse_kode(i, input) ==
    CASE Catalog[i].name = "cbor" -> cbor_parse(input)
      [] Catalog[i].name = "json" -> json_parse(input)
      [] Catalog[i].name = "yaml" -> yaml_parse(input)
      [] Catalog[i].name = "toml" -> toml_parse(input)

\* format!("{:02x}", byte)
hex_byte(byte) == <<Digits[(byte \div 16) + 1], Digits[(byte % 16) + 1]>>

RECURSIVE hex_string(_)
hex_string(bytes) ==
    IF Len(bytes) = 0 THEN <<>>
    ELSE hex_byte(bytes[1]) \o hex_string(Tail(bytes))

\* What the encoders do with one map: which of them fail, and what the
\* other formats' decoders make of the text produced.
EncoderOracles == [fails : SUBSET {Catalog[i].name : i \in DOMAIN Catalog},
                   json : DecodeResult, yaml : DecodeResult,
                   toml : DecodeResult]

Encoded(name, cs, m, o) ==
    [ok |-> TRUE, err |-> "",
     text |-> [chars |-> cs,
               json |-> IF name = "json" THEN Ok(m)
                        ELSE IF OnlyHexDigits(cs) THEN Err ELSE o.json,
               yaml |-> IF name = "yaml" THEN Ok(m)
                        ELSE IF OnlyHexDigits(cs) THEN Err ELSE o.yaml,
               toml |-> IF name = "toml" THEN Ok(m)
                        ELSE IF OnlyHexDigits(cs) THEN Err ELSE o.toml]]

NoText == [chars |-> <<>>, json |-> Err, yaml |-> Err, toml |-> Err]

EncodeError(name) ==
    [ok |-> FALSE, err |-> name \o " encoder error", text |-> NoText]

\* |languages| { ... } of row i
print_kode(i, m, o) ==
    LET name == Catalog[i].name IN
    IF name \in o.fails THEN EncodeError(name)
    ELSE IF name = "cbor" THEN Encoded(name, hex_string(to_cbor(m)), m, o)
    ELSE Encoded(name, <<"{">>, m, o)

----------------------------------------------------------------------------
(* Format::parse and Format::print *)

ParseResult(kind, m, invoked, msg) ==
    [kind |-> kind, map |-> m, invoked |-> invoked, msg |-> msg]

RECURSIVE parse_from(_, _, _, _)
\* the expansion of the $( ... )+ of Format::parse from row i on; `invoked`
\* lists the decoders called so far
parse_from(i, input, fs, invoked) ==
    IF i > Len(Catalog) THEN ParseResult("None", NoMap, invoked, "")
    ELSE IF ~cfg(i, fs) THEN parse_from(i + 1, input, fs, invoked)
    ELSE LET result == parse_kode(i, input)
             tried == Append(invoked, Catalog[i].name)
         IN  CASE result.kind = "Ok" ->
                    ParseResult("Some", result.map, tried, "")
               [] result.kind = "Exit" ->
                    ParseResult("Exit", NoMap, tried, result.msg)
               [] OTHER -> parse_from(i + 1, input, fs, tried)

parse_without_empty_check(input, fs) == parse_from(1, input, fs, <<>>)

Format_parse(input, fs) ==
    IF Len(input.chars) = 0 THEN ParseResult("None", NoMap, <<>>, "")
    ELSE parse_from(1, input, fs, <<>>)

\* the arm of `match *self` for a variant of the build
VariantArm(variant) == CHOOSE i \in DOMAIN Catalog : Catalog[i].variant = variant

RECURSIVE print_from(_, _, _, _, _)
print_from(i, m, fs, o, invoked) ==
    LET tried == Append(invoked, Catalog[i].name)
        result == print_kode(i, m, o)
        later == {j \in DOMAIN Catalog : j > i /\ cfg(j, fs)}
    IN  IF result.ok \/ later = {}
        THEN [invoked |-> tried, result |-> result]
        ELSE print_from(CHOOSE j \in later : \A k \in later : j <= k,
                        m, fs, o, tried)

print_with_fallback(variant, m, fs, o) ==
    print_from(VariantArm(variant), m, fs, o, <<>>)

Format_print(variant, m, fs, o) ==
    LET i == VariantArm(variant) IN
    [invoked |-> <<Catalog[i].name>>, result |-> print_kode(i, m, o)]

----------------------------------------------------------------------------
(* add_input and convert_input *)

convert_input(contents, fs) == Format_parse(contents, fs)

\* *languages += map
Merge(langs, m) == [l \in Langs |-> langs[l] + m[l]]

RECURSIVE Join(_, _)
\* [&str]::join
Join(names, sep) ==
    IF Len(names) = 0 THEN ""
    ELSE IF Len(names) = 1 THEN names[1]
    ELSE names[1] \o sep \o Join(Tail(names), sep)

Diagnostic(kind, not_supported, all) ==
    [kind |-> kind, not_supported |-> not_supported, all |-> all]

failure_report_lists_all(fs) ==
    <<Diagnostic("Failed to parse input file", "", "")>>
    \o (IF Len(Format_not_supported(fs)) # 0
        THEN <<Diagnostic("compiled without serialization support for",
                          Join(Format_all(fs), ", "),
                          Debug(Join(Format_all(fs), ",")))>>
        ELSE <<>>)

\* what the else branch of add_input writes before process::exit(1)
failure_report(fs) ==
    <<Diagnostic("Failed to parse input file", "", "")>>
    \o (IF Len(Format_not_supported(fs)) # 0
        THEN <<Diagnostic("compiled without serialization support for",
                          Join(Format_not_supported(fs), ", "),
                          Debug(Join(Format_all(fs), ",")))>>
        ELSE <<>>)

merged_twice(map, langs) ==
    IF map.kind = "Some" THEN Merge(Merge(langs, map.map), map.map) ELSE langs

\* if let Some(map) = map { *languages += map; }
merged(map, langs) ==
    IF map.kind = "Some" THEN Merge(langs, map.map) ELSE langs

----------------------------------------------------------------------------
(* State *)

NoRet == [op |-> "none"]

NoArg == [op |-> "none"]

\* the names handed to from_str
NameInputs == {"cbor", "json", "yaml", "toml", "toml-io", "Cbor", "JSON",
               "Yaml", "TOML", "xml", ""}

InitCommon ==
    /\ features \in Builds
    /\ ret = NoRet
    /\ languages = NoMap
    /\ decoded = <<>>
    /\ stderr = <<>>
    /\ exit_code = <<>>

\* a direct call of Format::parse or Format::print on a drawn argument
InitDispatch ==
    /\ InitCommon
    /\ pc = "start"
    /\ arg \in [op : {"parse"}, text : Texts]
               \cup [op : {"print"}, variant : Format(features),
                     map : LanguageMap]

\* calls of the capability lists, from_str and print of the resolved format
InitNames ==
    /\ InitCommon
    /\ pc = "running"
    /\ arg = NoArg

\* a run of add_input calls on an empty aggregate
InitRun ==
    /\ InitCommon
    /\ pc = "running"
    /\ arg = NoArg

----------------------------------------------------------------------------
(* Actions *)

\* Format::parse(input), with process::exit(1) inside it ending the process
CallParse(input, variant, m) ==
    LET r == Format_parse(input, features) IN
    /\ ret' = [op |-> "parse", input |-> input, kind |-> r.kind,
               map |-> r.map, invoked |-> r.invoked,
               printed_by |-> variant, printed_map |-> m]
    /\ IF r.kind = "Exit"
       THEN /\ pc' = "exited"
            /\ stderr' = Append(stderr, Diagnostic(r.msg, "", ""))
            /\ exit_code' = <<1>>
       ELSE /\ pc' = "done"
            /\ UNCHANGED <<stderr, exit_code>>
    /\ UNCHANGED <<features, arg, languages, decoded>>

FormatParse ==
    /\ pc = "start"
    /\ arg.op = "parse"
    /\ CallParse(arg.text, "", NoMap)

CallPrint(variant, m, o) ==
    LET r == Format_print(variant, m, features, o) IN
    /\ ret' = [op |-> "print", variant |-> variant, map |-> m, oracle |-> o,
               invoked |-> r.invoked, result |-> r.result]
    /\ UNCHANGED <<features, arg, languages, decoded, stderr, exit_code>>

\* format.print(languages) on a variant of the build
FormatPrint ==
    /\ pc = "start"
    /\ arg.op = "print"
    /\ \E o \in EncoderOracles : CallPrint(arg.variant, arg.map, o)
    /\ pc' = "printed"

\* Format::parse of the text print returned
ParsePrinted ==
    /\ pc = "printed"
    /\ ret.result.ok
    /\ CallParse(ret.result.text, ret.variant, ret.map)

\* Format::supported(), Format::all() and Format::not_supported()
Capabilities ==
    /\ pc = "running"
    /\ ret' = [op |-> "formats",
               supported |-> Format_supported(features),
               all |-> Format_all(features),
               not_supported |-> Format_not_supported(features)]
    /\ UNCHANGED <<features, arg, pc, languages, decoded, stderr, exit_code>>

\* name.parse::<Format>()
FromStr ==
    /\ pc = "running"
    /\ \E name \in NameInputs :
          ret' = [op |-> "from_str", name |-> name,
                  result |-> from_str(name, features)]
    /\ UNCHANGED <<features, arg, pc, languages, decoded, stderr, exit_code>>

\* format.print(languages) on the Format from_str returned
PrintResolved ==
    /\ pc = "running"
    /\ ret.op = "from_str"
    /\ ret.result.ok
    /\ \E m \in LanguageMap, o \in EncoderOracles :
          CallPrint(ret.result.variant, m, o)
    /\ pc' = pc

\* add_input(input, &mut languages), whichever of the file, stdin or the
\* argument itself delivered `contents`
add_input ==
    /\ pc = "running"
    /\ Len(decoded) < MaxInputs
    /\ \E contents \in Texts :
          LET map == convert_input(contents, features) IN
          /\ ret' = [op |-> "add_input", kind |-> map.kind, map |-> map.map]
          /\ languages' = merged(map, languages)
          /\ CASE map.kind = "Some" ->
                    /\ decoded' = Append(decoded, map.map)
                    /\ UNCHANGED <<pc, stderr, exit_code>>
               [] map.kind = "None" ->
                    /\ stderr' = stderr \o failure_report(features)
                    /\ exit_code' = <<1>>
                    /\ pc' = "exited"
                    /\ UNCHANGED decoded
               [] OTHER ->
                    /\ stderr' = Append(stderr, Diagnostic(map.msg, "", ""))
                    /\ exit_code' = <<1>>
                    /\ pc' = "exited"
                    /\ UNCHANGED decoded
    /\ UNCHANGED <<features, arg>>

\* file.read_to_string(&mut contents).expect("Couldn't read file") panics
add_input_unreadable ==
    /\ pc = "running"
    /\ Len(decoded) < MaxInputs
    /\ ret' = [op |-> "add_input", kind |-> "Panic", map |-> NoMap]
    /\ stderr' = Append(stderr, Diagnostic("Couldn't read file", "", ""))
    /\ exit_code' = <<101>>
    /\ pc' = "panicked"
    /\ UNCHANGED <<features, arg, languages, decoded>>

----------------------------------------------------------------------------
(* Specifications *)

NextDispatch == FormatParse \/ FormatPrint \/ ParsePrinted

SpecDispatch == InitDispatch /\ [][NextDispatch]_vars

NextNames == Capabilities \/ FromStr \/ PrintResolved

SpecNames == InitNames /\ [][NextNames]_vars

NextRun == add_input \/ add_input_unreadable

SpecRun == InitRun /\ [][NextRun]_vars

Init == InitRun

Next == NextRun

Spec == SpecRun

----------------------------------------------------------------------------
(* What the properties are stated with: the catalog as the specification    *)
(* gives it, written out rather than read off the model's Catalog           *)

CatalogNames == <<"cbor", "json", "yaml", "toml">>

Position(n) == CHOOSE i \in DOMAIN CatalogNames : CatalogNames[i] = n

InCatalog(n) == \E i \in DOMAIN CatalogNames : CatalogNames[i] = n

\* the build-time option that gates a format
Gate(n) == IF n = "toml" THEN "toml-io" ELSE n

Enabled(n) == Gate(n) \in features

VariantOf(n) ==
    CASE n = "cbor" -> "Cbor" [] n = "json" -> "Json"
      [] n = "yaml" -> "Yaml" [] n = "toml" -> "Toml"

Range(seq) == {seq[i] : i \in DOMAIN seq}

\* what decoder n makes of a text
DecodedBy(n, text) ==
    CASE n = "cbor" -> IF from_hex(text.chars).ok
                       THEN from_slice(from_hex(text.chars).bytes)
                       ELSE Err
      [] n = "json" -> text.json
      [] n = "yaml" -> text.yaml
      [] n = "toml" -> text.toml

Accepting(text) ==
    {i \in DOMAIN CatalogNames :
        Enabled(CatalogNames[i]) /\ DecodedBy(CatalogNames[i], text).ok}

First(S) == CHOOSE i \in S : \A j \in S : i <= j

ParsedNonEmpty == ret.op = "parse" /\ Len(ret.input.chars) > 0

\* C1: on a non-empty input that two or more enabled codecs decode, parse
\* returns the map of the earliest declared of them and invokes no codec
\* declared after it.
C1_OrderedFallback ==
    (ParsedNonEmpty /\ Cardinality(Accepting(ret.input)) >= 2) =>
        LET a == First(Accepting(ret.input)) IN
        /\ ret.kind = "Some"
        /\ ret.map = DecodedBy(CatalogNames[a], ret.input).map
        /\ \A k \in DOMAIN ret.invoked : Position(ret.invoked[k]) <= a

\* C2: on a non-empty input no decode failure ends the process: parse
\* returns, Some(map) of the first enabled codec that decodes the input, and
\* None exactly when no enabled codec decodes it.
C2_FailuresSwallowed ==
    ParsedNonEmpty =>
        /\ ret.kind \in {"Some", "None"}
        /\ pc # "exited"
        /\ exit_code = <<>>
        /\ (ret.kind = "None") <=> (Accepting(ret.input) = {})
        /\ Accepting(ret.input) # {} =>
              ret.map = DecodedBy(CatalogNames[First(Accepting(ret.input))],
                                  ret.input).map

\* C3: parse of the text print(F, M) returned is Some(M) whenever no other
\* enabled codec decodes that text (in particular when F is the only
\* enabled format).
C3_RoundTrip ==
    (/\ ret.op = "parse"
     /\ ret.printed_by # ""
     /\ \A n \in Range(CatalogNames) :
           (Enabled(n) /\ VariantOf(n) # ret.printed_by)
              => ~DecodedBy(n, ret.input).ok)
    => (ret.kind = "Some" /\ ret.map = ret.printed_map)

\* C4: in every build parse of the empty input returns None and invokes no
\* decoder.
C4_EmptyInputRejected ==
    (ret.op = "parse" /\ Len(ret.input.chars) = 0) =>
        (ret.kind = "None" /\ ret.invoked = <<>> /\ pc = "done")

\* C4 witness: the empty input was parsed in a build whose toml decoder
\* accepts it.
C4_Witness ==
    /\ ret.op = "parse"
    /\ Len(ret.input.chars) = 0
    /\ "toml-io" \in features
    /\ ret.input.toml.ok
    /\ ret.kind = "None"

InCatalogOrder(seq) ==
    /\ \A i \in DOMAIN seq : InCatalog(seq[i])
    /\ \A i, j \in DOMAIN seq : i < j => Position(seq[i]) < Position(seq[j])

Partitioned ==
    /\ ret.all = CatalogNames
    /\ Range(ret.supported) \cup Range(ret.not_supported) = Range(ret.all)
    /\ Range(ret.supported) \cap Range(ret.not_supported) = {}
    /\ Range(ret.not_supported) = Range(ret.all) \ Range(ret.supported)
    /\ InCatalogOrder(ret.supported)
    /\ InCatalogOrder(ret.not_supported)
    /\ InCatalogOrder(ret.all)

\* C5: in every build supported() and not_supported() partition all(), each
\* list is in catalog order without duplicates, and a later call returns
\* the same lists.
C5_CapabilityPartition ==
    /\ [](ret.op = "formats" => Partitioned)
    /\ [][(ret.op = "formats" /\ ret'.op = "formats") => ret' = ret]_vars

\* C5 witness: the lists of the build with json and yaml only.
C5_Witness ==
    /\ ret.op = "formats"
    /\ features = {"json", "yaml"}
    /\ ret.supported = <<"json", "yaml">>
    /\ ret.not_supported = <<"cbor", "toml">>

\* C6: from_str has three disjoint outcomes: an enabled catalog name gives
\* Ok of its variant, a disabled catalog name the compiled-without error
\* naming the format, any other string (a catalog name in another letter
\* case included) the not-supported error naming the string.
C6_NameResolution ==
    ret.op = "from_str" =>
        /\ (InCatalog(ret.name) /\ Enabled(ret.name)) =>
              /\ ret.result.ok
              /\ ret.result.variant = VariantOf(ret.name)
        /\ (InCatalog(ret.name) /\ ~Enabled(ret.name)) =>
              /\ ~ret.result.ok
              /\ ret.result.err.kind = "compiled without serialization support"
              /\ ret.result.err.format = ret.name
        /\ ~InCatalog(ret.name) =>
              /\ ~ret.result.ok
              /\ ret.result.err.kind = "not a supported serialization format"
              /\ ret.result.err.format = "\"" \o ret.name \o "\""

\* C6 witness: "JSON" was resolved in a build with json enabled and
\* rejected as unknown.
C6_Witness ==
    /\ ret.op = "from_str"
    /\ ret.name = "JSON"
    /\ "json" \in features
    /\ ~ret.result.ok
    /\ ret.result.err.kind = "not a supported serialization format"

\* C7: for a disabled catalog format the error names the format, and its
\* install instruction names the feature flag that gates the format.
C7_InstallNamesGatingFlag ==
    (ret.op = "from_str" /\ InCatalog(ret.name) /\ ~Enabled(ret.name)) =>
        /\ ret.result.err.format = ret.name
        /\ ret.result.err.install
              = "cargo install tokei --features " \o Gate(ret.name)

RECURSIVE Sum(_)
Sum(maps) ==
    IF Len(maps) = 0 THEN [l \in Langs |-> 0]
    ELSE [l \in Langs |-> maps[1][l] + Sum(Tail(maps))[l]]

\* C8: add_input merges exactly the decoded map into the aggregate when
\* parsing yields Some; when it yields None the aggregate is unchanged, the
\* failure diagnostic is written and the run ends with status 1; while the
\* run goes on the aggregate is the merge of the maps decoded so far.
C8_MergeOnlyOnSuccess ==
    /\ [](pc = "running" => languages = Sum(decoded))
    /\ [][ret'.op = "add_input" =>
            /\ ret'.kind = "Some" =>
                  /\ languages' = [l \in Langs |-> languages[l] + ret'.map[l]]
                  /\ decoded' = Append(decoded, ret'.map)
                  /\ pc' = "running"
                  /\ exit_code' = <<>>
            /\ ret'.kind = "None" =>
                  /\ languages' = languages
                  /\ Len(stderr') > Len(stderr)
                  /\ stderr'[Len(stderr) + 1].kind = "Failed to parse input file"
                  /\ exit_code' = <<1>>
                  /\ pc' = "exited"]_vars

\* C8 witness: two inputs were merged into the aggregate.
C8_Witness ==
    /\ pc = "running"
    /\ Len(decoded) = 2
    /\ decoded[1]["Rust"] = 1
    /\ decoded[2]["Rust"] = 1
    /\ languages["Rust"] = 2

DisabledInOrder == SelectSeq(CatalogNames, LAMBDA n : ~Enabled(n))

TotalFailure == ret.op = "add_input" /\ ret.kind = "None"

\* C9 as stated: whenever parse yields None inside add_input, in every
\* build, a report of the disabled formats, Format::not_supported() in
\* catalog order, is written.
C9_AlwaysReportsCapabilities ==
    TotalFailure =>
        \E i \in DOMAIN stderr :
            /\ stderr[i].kind = "compiled without serialization support for"
            /\ stderr[i].not_supported = Join(DisabledInOrder, ", ")

\* C9 amended: when parse yields None inside add_input, the failure line is
\* written, followed, in a build with a disabled format, by one report that
\* lists the disabled names in catalog order joined by ", " and the whole
\* catalog joined by ","; in a build with every format enabled the failure
\* line is all that is written.
C9_ReportsDisabledWhenAny ==
    TotalFailure =>
        /\ exit_code = <<1>>
        /\ stderr[1] = [kind |-> "Failed to parse input file",
                        not_supported |-> "", all |-> ""]
        /\ IF Len(DisabledInOrder) = 0
           THEN Len(stderr) = 1
           ELSE /\ Len(stderr) = 2
                /\ stderr[2] =
                     [kind |-> "compiled without serialization support for",
                      not_supported |-> Join(DisabledInOrder, ", "),
                      all |-> "\"cbor,json,yaml,toml\""]

\* C9 witness: total failure in the build with json only.
C9_Witness ==
    /\ TotalFailure
    /\ features = {"json"}
    /\ Len(stderr) = 2
    /\ stderr[2].not_supported = "cbor, yaml, toml"

\* C10: from_str returns only variants enabled in the build, and print on
\* a variant invokes that format's encoder and no other, returning its
\* text when it succeeds and its error when it fails.
C10_PrintUsesOwnEncoder ==
    /\ (ret.op = "from_str" /\ ret.result.ok) =>
          \E n \in Range(CatalogNames) :
              Enabled(n) /\ ret.result.variant = VariantOf(n)
    /\ ret.op = "print" =>
          \E n \in Range(CatalogNames) :
              /\ Enabled(n)
              /\ ret.variant = VariantOf(n)
              /\ ret.invoked = <<n>>
              /\ (n \in ret.oracle.fails) =>
                    /\ ~ret.result.ok
                    /\ ret.result.err = n \o " encoder error"
              /\ (n \notin ret.oracle.fails) =>
                    /\ ret.result.ok
                    /\ DecodedBy(n, ret.result.text) = Ok(ret.map)

\* C10 witness: print on Json, resolved by from_str in the build with every
\* format, surfaced the json encoder's error although the other encoders
\* would have succeeded.
C10_Witness ==
    /\ ret.op = "print"
    /\ features = Features
    /\ ret.variant = "Json"
    /\ ret.oracle.fails = {"json"}
    /\ ~ret.result.ok

====
